---- MODULE Spec2Model ----
(***************************************************************************)
(* Client-side state of the support-ticket chat client: the App component  *)
(* (the conversation state controller), the ChatInterface and ChatMessage  *)
(* components, the FileUpload drop zone and the ApiService HTTP client.    *)
(* The backend is an opaque collaborator: every request that is issued is  *)
(* held in `inflight` until it settles, in any order, with any reply the   *)
(* backend may give.                                                       *)
(*                                                                         *)
(* The repository holds two versions of App and of ChatInterface.          *)
(*   variant = "refresh": App of src/unnamed/part_001 (refreshes the       *)
(*       shared session after an upload) rendering ChatInterface.js        *)
(*   variant = "clear":   App of FileUpload.js:155-296 (has handleClearChat)*)
(*       rendering the ChatInterface of src/unnamed/part_000 (Clear Chat   *)
(*       button)                                                           *)
(* One JavaScript task (an event handler, or the continuation of an async  *)
(* function after its await) runs to completion before the next one, so    *)
(* each is one atomic action.                                              *)
(***************************************************************************)
EXTENDS Integers, Sequences, FiniteSets, TLC

\* ------------------------------------------------------------ bounds
MaxSends == 2      \* handleSendMessage invocations in one run
MaxUploads == 2    \* handleFileUpload invocations in one run
MaxPicks == 1      \* files picked through the chat input's file button in one run
MaxLen == 2        \* length of a text typed into the chat input
MaxFieldLen == 1   \* length of a text typed into a dialog field
MaxFeedbacks == 2  \* POST /feedback requests in one run
MaxResolutions == 1 \* POST /add-resolution requests in one run
MaxDrop == 1       \* files in the accepted or the rejected list of one drop

\* ------------------------------------------------------------ values
\* A text is a sequence of characters; " " stands for white space.
Chars == {" ", "a"}
Whitespace == {" "}
TextsUpTo(len) == UNION {[1..n -> Chars] : n \in 0..len}
Texts == TextsUpTo(MaxLen)
FieldTexts == TextsUpTo(MaxFieldLen)

RECURSIVE TrimStart(_)
TrimStart(s) ==
  IF Len(s) > 0 /\ Head(s) \in Whitespace THEN TrimStart(Tail(s)) ELSE s

RECURSIVE TrimEnd(_)
TrimEnd(s) ==
  IF Len(s) > 0 /\ s[Len(s)] \in Whitespace
  THEN TrimEnd(SubSeq(s, 1, Len(s) - 1)) ELSE s

\* String.prototype.trim
trim(s) == TrimEnd(TrimStart(s))

\* The three example-question chips.
exampleQuestions == << <<"q1">>, <<"q2">>, <<"q3">> >>

\* Files the user can pick or drop: [name, ext].
Files == { [name |-> "tickets.xlsx", ext |-> ".xlsx"],
           [name |-> "notes.csv", ext |-> ".csv"] }

\* An optional value (null/undefined or a value) is a sequence of length <= 1.
Null == <<>>
Some(v) == <<v>>

\* ------------------------------------------------------------ backend replies
\* /chat success payloads: {response, sources}; sources may be missing.
ChatReplies ==
  { [response |-> <<"r">>, sources |-> Null],
    [response |-> <<"r">>, sources |-> Some(<<>>)],
    [response |-> <<"r">>, sources |-> Some(<<"ticket:12", "ticket:77">>)] }

\* A rejected request: err.response?.data?.detail is undefined (network error,
\* or a body without detail), the empty string, or a message.
Failures ==
  { [detail |-> Null], [detail |-> Some("")],
    [detail |-> Some("Unsupported format")] }

\* /health payloads.
HealthReplies ==
  { [gemini_api |-> g, vectorstore_loaded |-> v] :
      g \in {"connected", "disconnected"}, v \in BOOLEAN }

SharedFileInfo == [filename |-> "shared.xlsx", rows |-> 3]

\* /default-session payloads: {available, file_info?}.
DefaultSessionReplies ==
  { [available |-> FALSE, file_info |-> Null],
    [available |-> TRUE, file_info |-> Some(SharedFileInfo)],
    [available |-> TRUE, file_info |-> Null] }

\* ------------------------------------------------------------ state
VARIABLES
  variant,        \* which App/ChatInterface pair is built
  sessionId,      \* App: const [sessionId] = useState(() => uuidv4())
  fileInfo,       \* App: Null or Some(file_info)
  isLoading,      \* App: upload in progress
  chatLoading,    \* App: send in progress
  chatHistory,    \* App: sequence of messages
  error,          \* App: error notification ('' when none)
  success,        \* App: success notification ('' when none)
  hasDefaultData, \* App
  message,        \* ChatInterface: the text in the input
  dragError,      \* FileUpload: drop-zone error text
  dropped,        \* FileUpload: the lists the drop zone last passed to onDrop
  feedbackGiven,  \* ChatMessage: ids of the messages whose feedbackGiven is true
  feedbackMessage,\* ChatMessage: feedbackMessage of those messages
  feedbackDialogOpen,     \* ChatInterface.js
  feedbackData,           \* ChatInterface.js: {type, message, suggestions}
  addResolutionOpen,      \* ChatInterface.js
  resolutionDialogOpen,   \* part_000
  currentFeedbackMessage, \* part_000
  resolutionData,         \* the resolution form of either ChatInterface
  alertText,      \* text of the last window.alert ('' when none was raised)
  consoleErrors,  \* the labels console.error has been called with
  inflight,       \* the HTTP requests issued and not yet settled, by key
  issued,         \* per path, the number of requests issued so far
  uuids           \* number of uuidv4() values generated so far

appVars == <<sessionId, fileInfo, isLoading, chatLoading, chatHistory,
             error, success, hasDefaultData>>
uiVars == <<message, dragError, dropped>>
fbVars == <<feedbackGiven, feedbackMessage, feedbackDialogOpen, feedbackData,
            resolutionDialogOpen, currentFeedbackMessage>>
resVars == <<addResolutionOpen, resolutionData, alertText, consoleErrors>>
compVars == <<uiVars, fbVars, resVars>>
netVars == <<inflight, issued>>
vars == <<variant, appVars, compVars, netVars, uuids>>

\* uuidv4(): the k-th value generated; all are distinct.
uuidv4(k) == k

\* ------------------------------------------------------------ ApiService
\* The methods class ApiService defines.
ApiMethods == {"checkHealth", "uploadFile", "sendMessage", "submitFeedback",
               "getSession", "deleteSession", "getDefaultSession"}

Paths == {"/health", "/default-session", "/upload", "/chat", "/feedback",
          "/add-resolution"}

\* process.env.REACT_APP_API_URL: the deployment configures a backend that is
\* not the default one.
REACT_APP_API_URL == Some("https://support.example.com")

\* const API_BASE_URL = process.env.REACT_APP_API_URL || 'http://localhost:8000'
API_BASE_URL ==
  IF REACT_APP_API_URL # Null /\ REACT_APP_API_URL[1] # ""
  THEN REACT_APP_API_URL[1] ELSE "http://localhost:8000"

\* A request of the axios instance (baseURL: API_BASE_URL): ctx is what the
\* awaiting async function holds in its closure.
Request(method, path, body, ctx) ==
  [method |-> method, origin |-> API_BASE_URL, path |-> path, body |-> body,
   ctx |-> ctx]

\* A sendMessage that is handed the id of the user message for the session id.
sendMessageWithMessageId(text, sid, ctx) ==
  Request("POST", "/chat",
          [message |-> text, session_id |-> ctx.userMessage.id], ctx)

\* ApiService.sendMessage(message, sessionId): POST /chat {message, session_id}
sendMessage(text, sid, ctx) ==
  Request("POST", "/chat", [message |-> text, session_id |-> sid], ctx)

\* ApiService.uploadFile(file, sessionId): POST /upload multipart
uploadFile(file, sid, ctx) ==
  Request("POST", "/upload", [file |-> file, session_id |-> sid], ctx)

\* ApiService.checkHealth(): GET /health
checkHealth(ctx) == Request("GET", "/health", Null, ctx)

\* ApiService.getDefaultSession(): GET /default-session
getDefaultSession(ctx) == Request("GET", "/default-session", Null, ctx)

\* Requests are keyed <<path, k>>: the k-th request issued to that path.
Outstanding(path) == {key \in DOMAIN inflight : key[1] = path}
NextKey(path) == <<path, issued[path] + 1>>

\* The network after `req` is issued.
Issue(net, count, req) ==
  LET key == <<req.path, count[req.path] + 1>>
  IN << [k \in DOMAIN net \cup {key} |-> IF k = key THEN req ELSE net[k]],
        [count EXCEPT ![req.path] = @ + 1] >>

\* The outstanding requests once the one with `key` has settled.
Settle(net, key) == [k \in DOMAIN net \ {key} |-> net[k]]

\* A catch block that shows its fixed text whatever the backend said.
FallbackOnly(err, fallback) == fallback

\* err.response?.data?.detail || fallback
DetailOr(err, fallback) ==
  IF err.detail # Null /\ err.detail[1] # "" THEN err.detail[1] ELSE fallback

\* ------------------------------------------------------------ App
\* Slips of the state update: setChatHistory([m]), an update that puts the
\* new message in the place of the last one, setChatHistory(prev => [m, ...prev]),
\* and an update that merges away earlier messages with the same content.
MergeMessage(prev, m) ==
  Append(SelectSeq(prev, LAMBDA x : x.content # m.content), m)
OnlyMessage(prev, m) == <<m>>
ReplaceLastMessage(prev, m) ==
  IF prev = <<>> THEN <<m>> ELSE Append(SubSeq(prev, 1, Len(prev) - 1), m)
PrependMessage(prev, m) == <<m>> \o prev

\* setChatHistory(prev => [...prev, m])
AppendMessage(prev, m) == Append(prev, m)

\* The messages handleSendMessage builds (timestamps are not modelled).
UserMessage(id, text) == [id |-> id, type |-> "user", content |-> text]

\* An assistant message built without `response.sources || []`.
BotMessageWithoutSources(id, response) ==
  [id |-> id, type |-> "assistant", content |-> response.response,
   sources |-> <<>>]

BotMessage(id, response) ==
  [id |-> id, type |-> "assistant", content |-> response.response,
   sources |-> IF response.sources # Null THEN response.sources[1] ELSE <<>>]

\* An error message built from a copy of botMessage that kept `sources`.
ErrorMessageWithSources(id) ==
  [id |-> id, type |-> "error",
   content |-> <<"Sorry, I encountered an error processing your message.">>,
   sources |-> <<>>]

ErrorMessage(id) ==
  [id |-> id, type |-> "error",
   content |-> <<"Sorry, I encountered an error processing your message.">>]

\* ChatInterface.js:188-192, the initial and the reset feedbackData
NoFeedbackData == [type |-> "", message |-> Null, suggestions |-> <<>>]

\* The initial and the reset resolutionData (ChatInterface.js:193-199,
\* part_000:184-187)
NoResolutionData(v) ==
  IF v = "refresh"
  THEN [error_code |-> <<>>, module |-> "", description |-> <<>>,
        resolution |-> <<>>, ticket_level |-> "L2"]
  ELSE [error_code |-> <<>>, resolution_text |-> <<>>]

Init ==
  /\ variant \in {"refresh", "clear"}
  /\ sessionId = uuidv4(1)
  /\ fileInfo = Null
  /\ isLoading = FALSE
  /\ chatLoading = FALSE
  /\ chatHistory = <<>>
  /\ error = ""
  /\ success = ""
  /\ hasDefaultData = FALSE
  /\ message = <<>>
  /\ dragError = ""
  /\ dropped = Null
  /\ feedbackGiven = {}
  /\ feedbackMessage = <<>>
  /\ feedbackDialogOpen = FALSE
  /\ feedbackData = NoFeedbackData
  /\ addResolutionOpen = FALSE
  /\ resolutionDialogOpen = FALSE
  /\ currentFeedbackMessage = Null
  /\ resolutionData = NoResolutionData(variant)
  /\ alertText = ""
  /\ consoleErrors = {}
  \* useEffect(() => { checkApiHealthAndDefaults(); }, []) has issued GET /health
  /\ inflight = [k \in {<<"/health", 1>>} |->
                   checkHealth([fn |-> "checkApiHealthAndDefaults"])]
  /\ issued = [p \in Paths |-> IF p = "/health" THEN 1 ELSE 0]
  /\ uuids = 1

\* handleSendMessage(message), up to its await: the user message is appended,
\* chatLoading is set and POST /chat is issued.
handleSendMessage(text) ==
  /\ issued["/chat"] < MaxSends
  /\ LET userMessage == UserMessage(uuidv4(uuids + 1), text)
         net == Issue(inflight, issued,
                      sendMessage(text, sessionId,
                                  [fn |-> "handleSendMessage",
                                   userMessage |-> userMessage]))
     IN /\ chatHistory' = AppendMessage(chatHistory, userMessage)
        /\ chatLoading' = TRUE
        /\ inflight' = net[1]
        /\ issued' = net[2]
        /\ uuids' = uuids + 1
  /\ UNCHANGED <<variant, sessionId, fileInfo, isLoading, error, success,
                 hasDefaultData>>

\* handleSendMessage after the await resolved: the assistant message.
ChatResolved(key, response) ==
  /\ key \in Outstanding("/chat")
  /\ chatHistory' = AppendMessage(chatHistory,
                                  BotMessage(uuidv4(uuids + 1), response))
  /\ uuids' = uuids + 1
  /\ chatLoading' = FALSE
  /\ inflight' = Settle(inflight, key)
  /\ UNCHANGED <<variant, sessionId, fileInfo, isLoading, error, success,
                 hasDefaultData, compVars, issued>>

\* A catch block that sends the message once more before giving up.
ChatRejectedRetrying(key, err) ==
  /\ key \in Outstanding("/chat")
  /\ LET net == Issue(Settle(inflight, key), issued, inflight[key])
     IN inflight' = net[1] /\ issued' = net[2]
  /\ UNCHANGED <<variant, appVars, compVars, uuids>>

\* handleSendMessage after the await rejected: the catch block.
\* A catch block with no finally after it: the loading flag is left as it is.
ChatRejectedWithoutFinally(key, err) ==
  /\ key \in Outstanding("/chat")
  /\ error' = DetailOr(err, "Error sending message")
  /\ chatHistory' = AppendMessage(chatHistory, ErrorMessage(uuidv4(uuids + 1)))
  /\ uuids' = uuids + 1
  /\ inflight' = Settle(inflight, key)
  /\ UNCHANGED <<variant, sessionId, fileInfo, isLoading, chatLoading, success,
                 hasDefaultData, compVars, issued>>

ChatRejected(key, err) ==
  /\ key \in Outstanding("/chat")
  /\ error' = DetailOr(err, "Error sending message")
  /\ chatHistory' = AppendMessage(chatHistory, ErrorMessage(uuidv4(uuids + 1)))
  /\ uuids' = uuids + 1
  /\ chatLoading' = FALSE
  /\ inflight' = Settle(inflight, key)
  /\ UNCHANGED <<variant, sessionId, fileInfo, isLoading, success,
                 hasDefaultData, compVars, issued>>

\* checkApiHealthAndDefaults after `await ApiService.checkHealth()` resolved.
HealthResolved(key, health) ==
  /\ key \in Outstanding("/health")
  /\ IF variant = "refresh"
     THEN \* part_001: warn when Gemini is down, then ask for the default session
          LET net == Issue(Settle(inflight, key), issued,
                           getDefaultSession(inflight[key].ctx))
          IN /\ error' = IF health.gemini_api = "disconnected"
                         THEN "Gemini API is not connected. Please check your API key."
                         ELSE error
             /\ inflight' = net[1]
             /\ issued' = net[2]
             /\ UNCHANGED <<hasDefaultData, success>>
     ELSE \* FileUpload.js:169-181
          /\ hasDefaultData' = (hasDefaultData \/ health.vectorstore_loaded)
          /\ success' = IF health.vectorstore_loaded
                        THEN "Knowledge base loaded! You can start chatting immediately."
                        ELSE "Knowledge base is loading... Please wait."
          /\ inflight' = Settle(inflight, key)
          /\ UNCHANGED <<error, issued>>
  /\ UNCHANGED <<variant, sessionId, fileInfo, isLoading, chatLoading,
                 chatHistory, compVars, uuids>>

\* checkApiHealthAndDefaults after `await ApiService.getDefaultSession()` resolved.
StartupDefaultsResolved(key, defaultSession) ==
  /\ key \in Outstanding("/default-session")
  /\ inflight[key].ctx.fn = "checkApiHealthAndDefaults"
  /\ hasDefaultData' = (hasDefaultData \/ defaultSession.available)
  /\ success' = IF defaultSession.available
                THEN "Default support ticket data loaded! You can start chatting immediately."
                ELSE success
  /\ inflight' = Settle(inflight, key)
  /\ UNCHANGED <<variant, sessionId, fileInfo, isLoading, chatLoading,
                 chatHistory, error, compVars, issued, uuids>>

\* A catch block that also withdraws the default data.
StartupRejectedResetting(key) ==
  /\ key \in Outstanding("/health") \cup Outstanding("/default-session")
  /\ inflight[key].ctx.fn = "checkApiHealthAndDefaults"
  /\ error' = "Cannot connect to the backend API. Please ensure the server is running."
  /\ hasDefaultData' = FALSE
  /\ inflight' = Settle(inflight, key)
  /\ UNCHANGED <<variant, sessionId, fileInfo, isLoading, chatLoading,
                 chatHistory, success, compVars, issued, uuids>>

\* checkApiHealthAndDefaults: either await rejected (the catch block).
StartupRejected(key) ==
  /\ key \in Outstanding("/health") \cup Outstanding("/default-session")
  /\ inflight[key].ctx.fn = "checkApiHealthAndDefaults"
  /\ error' = "Cannot connect to the backend API. Please ensure the server is running."
  /\ inflight' = Settle(inflight, key)
  /\ UNCHANGED <<variant, sessionId, fileInfo, isLoading, chatLoading,
                 chatHistory, success, hasDefaultData, compVars, issued, uuids>>

\* `File '${file.name}' added to shared knowledge base! ...`
FileAdded(file) ==
  "File '" \o file.name \o "' added to shared knowledge base! All users can now access this data."

\* handleFileUpload(file), up to its first await.
handleFileUpload(file) ==
  /\ issued["/upload"] < MaxUploads
  /\ isLoading' = TRUE
  /\ error' = ""
  /\ LET net == Issue(inflight, issued,
                      uploadFile(file, sessionId,
                                 [fn |-> "handleFileUpload", file |-> file]))
     IN inflight' = net[1] /\ issued' = net[2]
  /\ UNCHANGED <<variant, sessionId, fileInfo, chatLoading, chatHistory,
                 success, hasDefaultData, uuids>>

\* An upload that empties the conversation (the commented-out
\* setChatHistory([]) put back).
UploadResolvedClearingChat(key) ==
  /\ key \in Outstanding("/upload")
  /\ IF variant = "refresh"
     THEN LET net == Issue(Settle(inflight, key), issued,
                           getDefaultSession(inflight[key].ctx))
          IN /\ inflight' = net[1]
             /\ issued' = net[2]
             /\ UNCHANGED <<hasDefaultData, success, isLoading>>
     ELSE /\ hasDefaultData' = TRUE
          /\ success' = FileAdded(inflight[key].ctx.file)
          /\ isLoading' = FALSE
          /\ inflight' = Settle(inflight, key)
          /\ UNCHANGED issued
  /\ chatHistory' = <<>>
  /\ UNCHANGED <<variant, sessionId, fileInfo, chatLoading,
                 error, compVars, uuids>>

\* handleFileUpload after `await ApiService.uploadFile(...)` resolved.
UploadResolved(key) ==
  /\ key \in Outstanding("/upload")
  /\ IF variant = "refresh"
     THEN \* part_001:75: refresh the shared session info first
          LET net == Issue(Settle(inflight, key), issued,
                           getDefaultSession(inflight[key].ctx))
          IN /\ inflight' = net[1]
             /\ issued' = net[2]
             /\ UNCHANGED <<hasDefaultData, success, isLoading>>
     ELSE \* FileUpload.js:190-195
          /\ hasDefaultData' = TRUE
          /\ success' = FileAdded(inflight[key].ctx.file)
          /\ isLoading' = FALSE
          /\ inflight' = Settle(inflight, key)
          /\ UNCHANGED issued
  /\ UNCHANGED <<variant, sessionId, fileInfo, chatLoading, chatHistory,
                 error, compVars, uuids>>

\* handleFileUpload (part_001) after `await ApiService.getDefaultSession()`.
UploadRefreshResolved(key, defaultSession) ==
  /\ key \in Outstanding("/default-session")
  /\ inflight[key].ctx.fn = "handleFileUpload"
  /\ fileInfo' = IF defaultSession.available
                 THEN defaultSession.file_info ELSE fileInfo
  /\ hasDefaultData' = (hasDefaultData \/ defaultSession.available)
  /\ success' = FileAdded(inflight[key].ctx.file)
  /\ isLoading' = FALSE
  /\ inflight' = Settle(inflight, key)
  /\ UNCHANGED <<variant, sessionId, chatLoading, chatHistory, error,
                 compVars, issued, uuids>>

\* handleFileUpload: an await rejected (catch, then finally).
UploadRejected(key, err) ==
  /\ key \in Outstanding("/upload") \cup Outstanding("/default-session")
  /\ inflight[key].ctx.fn = "handleFileUpload"
  /\ error' = DetailOr(err, "Error uploading file")
  /\ isLoading' = FALSE
  /\ inflight' = Settle(inflight, key)
  /\ UNCHANGED <<variant, sessionId, fileInfo, chatLoading, chatHistory,
                 success, hasDefaultData, compVars, issued, uuids>>

\* handleClearChat (FileUpload.js:233-241). ApiService defines no clearChat,
\* so `ApiService.clearChat(sessionId)` throws a TypeError inside the try
\* block before anything is awaited, and the catch block runs.
handleClearChat ==
  /\ variant = "clear"
  /\ "clearChat" \notin ApiMethods
  /\ error' = "Error clearing chat history."
  /\ UNCHANGED <<variant, sessionId, fileInfo, isLoading, chatLoading,
                 chatHistory, success, hasDefaultData, netVars, uuids>>

\* Snackbar onClose={() => setError('')} (auto-hide or close button)
CloseErrorSnackbar ==
  /\ error # ""
  /\ error' = ""
  /\ UNCHANGED <<variant, sessionId, fileInfo, isLoading, chatLoading,
                 chatHistory, success, hasDefaultData, compVars, netVars, uuids>>

\* Snackbar onClose={() => setSuccess('')}
CloseSuccessSnackbar ==
  /\ success # ""
  /\ success' = ""
  /\ UNCHANGED <<variant, sessionId, fileInfo, isLoading, chatLoading,
                 chatHistory, error, hasDefaultData, compVars, netVars, uuids>>

\* ------------------------------------------------------------ ChatInterface
\* A text field that stays enabled while an answer is awaited.
TextFieldIgnoresLoading == ~(isLoading /\ ~hasDefaultData)

\* Props: disabled={isLoading}, loading={chatLoading}.
\* TextField disabled={(disabled && !hasDefaultData) || loading}
TextFieldEnabled == ~((isLoading /\ ~hasDefaultData) \/ chatLoading)

\* Send button disabled={(disabled && !hasDefaultData) || !message.trim() || loading}
SendButtonEnabled ==
  ~((isLoading /\ ~hasDefaultData) \/ trim(message) = <<>> \/ chatLoading)

\* onChange={(e) => setMessage(e.target.value)}
onChange(text) ==
  /\ TextFieldEnabled
  /\ message' = text
  /\ UNCHANGED <<variant, appVars, dragError, dropped, fbVars, resVars, netVars,
                 uuids>>

\* A handleSend that passes the input as typed.
handleSendUntrimmed ==
  IF trim(message) # <<>> /\ ~isLoading
  THEN /\ handleSendMessage(message)
       /\ message' = <<>>
       /\ UNCHANGED <<dragError, dropped, fbVars, resVars>>
  ELSE UNCHANGED vars

\* handleSend: if (message.trim() && !disabled) { onSendMessage(message.trim()); setMessage('') }
handleSend ==
  IF trim(message) # <<>> /\ ~isLoading
  THEN /\ handleSendMessage(trim(message))
       /\ message' = <<>>
       /\ UNCHANGED <<dragError, dropped, fbVars, resVars>>
  ELSE UNCHANGED vars

\* A click on the Send button.
ClickSend == SendButtonEnabled /\ handleSend

\* handleKeyPress: Enter without Shift in the text field.
handleKeyPress == TextFieldEnabled /\ handleSend

\* Chips that are rendered whatever the history holds.
ClickExampleQuestionAlwaysShown(k) ==
  /\ ~(isLoading /\ ~hasDefaultData)
  /\ IF ~isLoading
     THEN handleSendMessage(exampleQuestions[k]) /\ UNCHANGED compVars
     ELSE UNCHANGED vars

\* A click on an example-question chip (rendered while the history is empty
\* and not (disabled && !hasDefaultData)): !disabled && onSendMessage(question)
ClickExampleQuestion(k) ==
  /\ Len(chatHistory) = 0
  /\ ~(isLoading /\ ~hasDefaultData)
  /\ IF ~isLoading
     THEN handleSendMessage(exampleQuestions[k]) /\ UNCHANGED compVars
     ELSE UNCHANGED vars

\* <input type="file" accept=".xlsx,.xls">: what the file picker offers.
InputAccept == {".xlsx", ".xls"}
PickableFiles == {f \in Files : f.ext \in InputAccept}

\* handleFileSelect: the hidden file input's onChange.
handleFileSelect(file) ==
  /\ handleFileUpload(file)
  /\ UNCHANGED compVars

\* The Clear Chat button of part_000: disabled={chatHistory.length === 0}
ClickClearChat ==
  /\ Len(chatHistory) > 0
  /\ handleClearChat
  /\ UNCHANGED compVars

\* ------------------------------------------------------------ feedback
\* JavaScript values that are not texts: undefined, null, and object literals.
Undefined == [js |-> "undefined"]
JsNull == [js |-> "null"]

\* ApiService.submitFeedback(messageId, feedback, sessionId, comment = null):
\* POST /feedback {message_id, feedback, session_id, comment}
submitFeedback(messageId, feedback, sid, comment, ctx) ==
  Request("POST", "/feedback",
          [message_id |-> messageId, feedback |-> feedback,
           session_id |-> sid,
           comment |-> IF comment = Undefined THEN JsNull ELSE comment],
          ctx)

\* ChatInterface.handleFeedback(type, message), called by ChatMessage.
handleFeedback(type, m) ==
  IF type = "negative"
  THEN /\ IF variant = "refresh"
          THEN \* ChatInterface.js:280-282
               /\ feedbackData' = [type |-> type, message |-> Some(m),
                                   suggestions |-> <<>>]
               /\ feedbackDialogOpen' = TRUE
               /\ UNCHANGED <<currentFeedbackMessage, resolutionDialogOpen>>
          ELSE \* part_000:218-221
               /\ currentFeedbackMessage' = Some(m)
               /\ resolutionDialogOpen' = TRUE
               /\ UNCHANGED <<feedbackData, feedbackDialogOpen>>
       /\ UNCHANGED netVars
  ELSE \* the one argument is an object literal; the call is not awaited
       /\ issued["/feedback"] < MaxFeedbacks
       /\ LET net == Issue(inflight, issued,
                       submitFeedback([js |-> "object", type |-> type,
                                       messageId |-> m.id],
                                      Undefined, Undefined, Undefined,
                                      [fn |-> "handleFeedback", messageId |-> m.id]))
          IN inflight' = net[1] /\ issued' = net[2]
       /\ UNCHANGED <<feedbackData, feedbackDialogOpen,
                      currentFeedbackMessage, resolutionDialogOpen>>

\* The thumbs of an assistant message are rendered while !feedbackGiven.
ThumbsOffered(k) ==
  /\ k \in DOMAIN chatHistory
  /\ chatHistory[k].type = "assistant"
  /\ chatHistory[k].id \notin feedbackGiven

\* The feedbackGiven flags after a thumb of message `id` was clicked.
MarkFeedbackGiven(given, id) == given \cup {id}

\* ChatMessage.handleFeedback(type): a click on a thumb of the k-th message.
ChatMessage_handleFeedback(k, type) ==
  /\ ThumbsOffered(k)
  /\ feedbackGiven' = MarkFeedbackGiven(feedbackGiven, chatHistory[k].id)
  /\ feedbackMessage' =
       [id \in DOMAIN feedbackMessage \cup {chatHistory[k].id} |->
          IF id = chatHistory[k].id
          THEN IF type = "positive" THEN "Thanks for the feedback!"
                                    ELSE "Thanks for your feedback!"
          ELSE feedbackMessage[id]]
  /\ handleFeedback(type, chatHistory[k])
  /\ UNCHANGED <<variant, appVars, uiVars, resVars, uuids>>

\* The feedback dialog's text field (ChatInterface.js:583).
onSuggestionsChange(text) ==
  /\ feedbackDialogOpen
  /\ feedbackData' = [feedbackData EXCEPT !.suggestions = text]
  /\ UNCHANGED <<variant, appVars, uiVars, resVars, netVars, uuids,
                 feedbackGiven, feedbackMessage, feedbackDialogOpen,
                 resolutionDialogOpen, currentFeedbackMessage>>

\* A Submit Feedback button without its disabled attribute.
SubmitNeverDisabled == feedbackDialogOpen

\* Submit Feedback button: disabled={!feedbackData.suggestions.trim()}
SubmitFeedbackEnabled ==
  feedbackDialogOpen /\ trim(feedbackData.suggestions) # <<>>

\* handleFeedbackSubmit, up to its await. With feedbackData.message null the
\* property access throws and nothing is sent.
handleFeedbackSubmit ==
  /\ SubmitFeedbackEnabled
  /\ IF feedbackData.message # Null
     THEN /\ issued["/feedback"] < MaxFeedbacks
          /\ LET net == Issue(inflight, issued,
                          submitFeedback([js |-> "object",
                                          type |-> feedbackData.type,
                                          messageId |-> feedbackData.message[1].id,
                                          suggestions |-> feedbackData.suggestions],
                                         Undefined, Undefined, Undefined,
                                         [fn |-> "handleFeedbackSubmit",
                                          messageId |-> feedbackData.message[1].id]))
             IN inflight' = net[1] /\ issued' = net[2]
     ELSE UNCHANGED netVars
  /\ UNCHANGED <<variant, appVars, uiVars, fbVars, resVars, uuids>>

\* handleFeedbackSubmit after the await resolved.
FeedbackSubmitResolved(key) ==
  /\ key \in Outstanding("/feedback")
  /\ inflight[key].ctx.fn = "handleFeedbackSubmit"
  /\ feedbackDialogOpen' = FALSE
  /\ feedbackData' = NoFeedbackData
  /\ inflight' = Settle(inflight, key)
  /\ UNCHANGED <<variant, appVars, uiVars, resVars, issued, uuids,
                 feedbackGiven, feedbackMessage, resolutionDialogOpen,
                 currentFeedbackMessage>>

\* The positive feedback request resolved: the call is not awaited and its
\* result is dropped.
FeedbackOutcomeDropped(key) ==
  /\ key \in Outstanding("/feedback")
  /\ inflight[key].ctx.fn = "handleFeedback"
  /\ inflight' = Settle(inflight, key)
  /\ UNCHANGED <<variant, appVars, compVars, issued, uuids>>

\* A feedback request of handleFeedback or handleFeedbackSubmit was rejected:
\* neither has a catch, so no statement of the component runs (no alert, no
\* console.error, the dialog stays as it is).
FeedbackRejected(key) ==
  /\ key \in Outstanding("/feedback")
  /\ inflight[key].ctx.fn \in {"handleFeedback", "handleFeedbackSubmit"}
  /\ inflight' = Settle(inflight, key)
  /\ UNCHANGED <<variant, appVars, compVars, issued, uuids>>

\* Cancel button and Dialog onClose: () => setFeedbackDialogOpen(false)
CloseFeedbackDialog ==
  /\ feedbackDialogOpen
  /\ feedbackDialogOpen' = FALSE
  /\ UNCHANGED <<variant, appVars, uiVars, resVars, netVars, uuids,
                 feedbackGiven, feedbackMessage, feedbackData,
                 resolutionDialogOpen, currentFeedbackMessage>>

\* ------------------------------------------------------------ resolution form
\* The Module select's menu items and the Ticket Level select's.
Modules == {"shipping", "logistics", "payment", "order", "inventory",
            "customer", "api", "database", "other"}
TicketLevels == {"L1", "L2", "L3"}

\* What the user can enter into a field of the form.
FieldValues(field) ==
  CASE field = "error_code" -> {<<>>, <<"a">>}
    [] field = "module" -> Modules
    [] field = "ticket_level" -> TicketLevels
    [] OTHER -> FieldTexts

ResolutionOpen ==
  IF variant = "refresh" THEN addResolutionOpen ELSE resolutionDialogOpen

\* Add Resolution button (ChatInterface.js): disabled={!hasDefaultData && !fileInfo}
handleAddResolution ==
  /\ variant = "refresh"
  /\ hasDefaultData \/ fileInfo # Null
  /\ addResolutionOpen' = TRUE
  /\ UNCHANGED <<variant, appVars, uiVars, fbVars, resolutionData, alertText,
                 consoleErrors, netVars, uuids>>

\* A close that keeps the draft.
CloseWithoutReset ==
  /\ UNCHANGED resolutionData
  /\ IF variant = "refresh"
     THEN /\ addResolutionOpen' = FALSE
          /\ UNCHANGED <<resolutionDialogOpen, currentFeedbackMessage>>
     ELSE /\ resolutionDialogOpen' = FALSE
          /\ currentFeedbackMessage' = Null
          /\ UNCHANGED addResolutionOpen

\* handleCloseResolutionDialog: Cancel, Dialog onClose, or after a success.
CloseResolutionDialog ==
  /\ resolutionData' = NoResolutionData(variant)
  /\ IF variant = "refresh"
     THEN /\ addResolutionOpen' = FALSE
          /\ UNCHANGED <<resolutionDialogOpen, currentFeedbackMessage>>
     ELSE /\ resolutionDialogOpen' = FALSE
          /\ currentFeedbackMessage' = Null
          /\ UNCHANGED addResolutionOpen

handleCloseResolutionDialog ==
  /\ ResolutionOpen
  /\ CloseResolutionDialog
  /\ UNCHANGED <<variant, appVars, uiVars, alertText, consoleErrors, netVars,
                 uuids, feedbackGiven, feedbackMessage, feedbackDialogOpen,
                 feedbackData>>

\* handleResolutionDataChange(field, value)
handleResolutionDataChange(field, value) ==
  /\ ResolutionOpen
  /\ field \in DOMAIN resolutionData
  /\ resolutionData' = [resolutionData EXCEPT ![field] = value]
  /\ UNCHANGED <<variant, appVars, uiVars, fbVars, addResolutionOpen,
                 alertText, consoleErrors, netVars, uuids>>

\* A required-field test without the trim: `!x`.
NotEmpty(text) == text # <<>>

\* The required fields pass `!x.trim()`.
Filled(text) == trim(text) # <<>>

\* fetch('http://localhost:8000/add-resolution', {method: 'POST', body: JSON.stringify(resolutionData)})
addResolution(draft, ctx) ==
  [method |-> "POST", origin |-> "http://localhost:8000",
   path |-> "/add-resolution", body |-> draft, ctx |-> ctx]

\* handleSubmitResolution, up to its await.
handleSubmitResolution ==
  /\ ResolutionOpen
  /\ IF variant = "refresh"
     THEN \* ChatInterface.js:250-264
          IF ~Filled(resolutionData.description) \/ ~Filled(resolutionData.resolution)
          THEN /\ alertText' = "Please fill in the description and resolution fields."
               /\ UNCHANGED <<netVars, consoleErrors>>
          ELSE /\ issued["/add-resolution"] < MaxResolutions
               /\ LET net == Issue(inflight, issued,
                               addResolution(resolutionData,
                                             [fn |-> "handleSubmitResolution"]))
                  IN inflight' = net[1] /\ issued' = net[2]
               /\ UNCHANGED <<alertText, consoleErrors>>
     ELSE \* part_000:238-253; the button is disabled={!resolution_text.trim()}
          /\ Filled(resolutionData.resolution_text)
          /\ IF currentFeedbackMessage = Null
             THEN \* currentFeedbackMessage.id throws inside the try block
                  /\ alertText' = "Error submitting resolution. Please check the console for details."
                  /\ consoleErrors' = consoleErrors \cup {"Error submitting resolution:"}
                  /\ UNCHANGED netVars
             ELSE /\ issued["/feedback"] < MaxFeedbacks
                  /\ LET net == Issue(inflight, issued,
                                  submitFeedback(
                                    [js |-> "object", type |-> "negative",
                                     messageId |-> currentFeedbackMessage[1].id,
                                     resolution_text |-> resolutionData.resolution_text,
                                     error_code |->
                                       IF resolutionData.error_code # <<>>
                                       THEN resolutionData.error_code ELSE JsNull],
                                    Undefined, Undefined, Undefined,
                                    [fn |-> "handleSubmitResolution",
                                     messageId |-> currentFeedbackMessage[1].id]))
                     IN inflight' = net[1] /\ issued' = net[2]
                  /\ UNCHANGED <<alertText, consoleErrors>>
  /\ UNCHANGED <<variant, appVars, uiVars, fbVars, addResolutionOpen,
                 resolutionData, uuids>>

\* handleSubmitResolution after its await resolved: fetch resolves with any
\* HTTP status (response.ok or not); ApiService resolves on success only.
\* `response` is [ok, detail].
SubmitResolutionResolved(key, response) ==
  /\ key \in Outstanding("/add-resolution") \cup Outstanding("/feedback")
  /\ inflight[key].ctx.fn = "handleSubmitResolution"
  /\ key[1] = "/feedback" => response.ok
  /\ IF response.ok
     THEN /\ alertText' =
               IF variant = "refresh"
               THEN "Resolution added successfully to the shared knowledge base! All users can now access this resolution."
               ELSE "Resolution added and feedback submitted successfully!"
          /\ CloseResolutionDialog
     ELSE /\ alertText' = "Failed to add resolution: "
                           \o DetailOr(response, "Please try again.")
          /\ UNCHANGED <<addResolutionOpen, resolutionData,
                         resolutionDialogOpen, currentFeedbackMessage>>
  /\ inflight' = Settle(inflight, key)
  /\ UNCHANGED <<variant, appVars, uiVars, issued, uuids, feedbackGiven,
                 feedbackMessage, feedbackDialogOpen, feedbackData,
                 consoleErrors>>

\* handleSubmitResolution: the await rejected (the catch block).
SubmitResolutionRejected(key) ==
  /\ key \in Outstanding("/add-resolution") \cup Outstanding("/feedback")
  /\ inflight[key].ctx.fn = "handleSubmitResolution"
  /\ alertText' =
       IF variant = "refresh"
       THEN "Error adding resolution. Please check the console for details."
       ELSE "Error submitting resolution. Please check the console for details."
  /\ consoleErrors' = consoleErrors \cup
       {IF variant = "refresh" THEN "Error adding resolution:"
                               ELSE "Error submitting resolution:"}
  /\ inflight' = Settle(inflight, key)
  /\ UNCHANGED <<variant, appVars, uiVars, fbVars, addResolutionOpen,
                 resolutionData, issued, uuids>>

\* What fetch resolves with: an OK response, or a 4xx/5xx with a JSON body.
FetchResponses ==
  {[ok |-> TRUE, detail |-> Null]} \cup
  {[ok |-> FALSE, detail |-> f.detail] : f \in Failures}

\* ------------------------------------------------------------ FileUpload
\* useDropzone accept: .xlsx, .xls, .pdf
AllowedExtensions == {".xlsx", ".xls", ".pdf"}

\* The lists the drop zone can pass to onDrop: the accepted files all match
\* `accept`; a rejected file failed `accept` or the `multiple: false` limit.
FileLists(S) == UNION {[1..n -> S] : n \in 0..MaxDrop}
Drops ==
  { [accepted |-> a, rejected |-> r] :
      a \in FileLists({f \in Files : f.ext \in AllowedExtensions}),
      r \in FileLists(Files) }

\* An onDrop that gives up only when nothing at all was accepted.
NothingAccepted(acceptedFiles, rejectedFiles) ==
  Len(rejectedFiles) > 0 /\ Len(acceptedFiles) = 0

\* onDrop: `if (rejectedFiles.length > 0) { setDragError(...); return; }`
DropRejected(acceptedFiles, rejectedFiles) == Len(rejectedFiles) > 0

\* onDrop(acceptedFiles, rejectedFiles); the zone is disabled while isLoading.
\* onFileUpload is App's handleFileUpload.
onDrop(acceptedFiles, rejectedFiles) ==
  /\ ~isLoading
  /\ dropped' = Some([accepted |-> acceptedFiles, rejected |-> rejectedFiles])
  /\ IF DropRejected(acceptedFiles, rejectedFiles)
     THEN /\ dragError' = "Please upload only Excel (.xlsx, .xls) or PDF (.pdf) files"
          /\ UNCHANGED <<appVars, netVars>>
     ELSE /\ dragError' = ""
          /\ IF Len(acceptedFiles) > 0
             THEN handleFileUpload(acceptedFiles[1])
             ELSE UNCHANGED <<appVars, netVars>>
  /\ UNCHANGED <<variant, message, fbVars, resVars, uuids>>

\* handleReset: setDragError(''); onReset() (no App passes onReset)
handleReset ==
  /\ dragError' = ""
  /\ UNCHANGED <<variant, appVars, message, dropped, fbVars, resVars,
                 netVars, uuids>>

\* ------------------------------------------------------------ specifications
\* The backend settles an outstanding request.
BackendSettles ==
  \E key \in DOMAIN inflight :
    \/ \E response \in ChatReplies : ChatResolved(key, response)
    \/ \E err \in Failures : ChatRejected(key, err)
    \/ \E health \in HealthReplies : HealthResolved(key, health)
    \/ \E ds \in DefaultSessionReplies : StartupDefaultsResolved(key, ds)
    \/ StartupRejected(key)
    \/ UploadResolved(key)
    \/ \E ds \in DefaultSessionReplies : UploadRefreshResolved(key, ds)
    \/ \E err \in Failures : UploadRejected(key, err)

\* The application as wired: App renders ChatInterface, and the user acts
\* through the controls ChatInterface offers.
Next ==
  \/ \E text \in Texts : onChange(text)
  \/ ClickSend
  \/ handleKeyPress
  \/ \E k \in DOMAIN exampleQuestions : ClickExampleQuestion(k)
  \/ issued["/upload"] < MaxPicks /\
       \E file \in PickableFiles : handleFileSelect(file)
  \/ ClickClearChat
  \/ CloseErrorSnackbar
  \/ CloseSuccessSnackbar
  \/ BackendSettles

Spec == Init /\ [][Next]_vars

\* The same program with a backend that answers: every request that was
\* issued is settled (resolved or rejected) at some time.
RequestKeys ==
  ({"/health"} \X {1})
    \cup ({"/chat"} \X (1 .. MaxSends))
    \cup ({"/upload"} \X (1 .. MaxUploads))
    \cup ({"/default-session"} \X (1 .. (MaxUploads + 1)))

RequestSettles(key) ==
  /\ key \in DOMAIN inflight
  /\ BackendSettles
  /\ key \notin DOMAIN inflight'

\* The steps of Next, with the typed text drawn from the shorter texts.
LiveNext ==
  \/ \E text \in FieldTexts : onChange(text)
  \/ ClickSend
  \/ handleKeyPress
  \/ \E k \in DOMAIN exampleQuestions : ClickExampleQuestion(k)
  \/ issued["/upload"] < MaxPicks /\
       \E file \in PickableFiles : handleFileSelect(file)
  \/ ClickClearChat
  \/ CloseErrorSnackbar
  \/ CloseSuccessSnackbar
  \/ BackendSettles

LiveSpec ==
  /\ Init
  /\ [][LiveNext]_vars
  /\ \A key \in RequestKeys : WF_vars(RequestSettles(key))

\* The controller alone: App's handlers are callbacks that any caller may
\* invoke at any time with any argument (here: one of two texts, one of the
\* files).
SendTexts == {<<"a">>, exampleQuestions[1]}

CtlNext ==
  \/ \E text \in SendTexts : handleSendMessage(text) /\ UNCHANGED compVars
  \/ \E file \in Files : handleFileUpload(file) /\ UNCHANGED compVars
  \/ handleClearChat /\ UNCHANGED compVars
  \/ CloseErrorSnackbar
  \/ CloseSuccessSnackbar
  \/ BackendSettles

CtlSpec == Init /\ [][CtlNext]_vars

\* The controller's chat handling alone: sends, their outcomes and clears.
\* (The startup check and the uploads neither read nor write chatHistory,
\* chatLoading or the /chat requests; CtlSpec has them all together.)
SendNext ==
  \/ \E text \in SendTexts : handleSendMessage(text) /\ UNCHANGED compVars
  \/ handleClearChat /\ UNCHANGED compVars
  \/ CloseErrorSnackbar
  \/ \E key \in DOMAIN inflight :
       \/ \E response \in ChatReplies : ChatResolved(key, response)
       \/ \E err \in Failures : ChatRejected(key, err)

SendSpec == Init /\ [][SendNext]_vars

\* The controller's upload handling alone: the startup check, uploads
\* (overlapping or not) and their outcomes.
UploadNext ==
  \/ \E file \in Files : handleFileUpload(file) /\ UNCHANGED compVars
  \/ CloseErrorSnackbar
  \/ CloseSuccessSnackbar
  \/ \E key \in DOMAIN inflight :
       \/ \E health \in HealthReplies : HealthResolved(key, health)
       \/ \E ds \in DefaultSessionReplies : StartupDefaultsResolved(key, ds)
       \/ StartupRejected(key)
       \/ UploadResolved(key)
       \/ \E ds \in DefaultSessionReplies : UploadRefreshResolved(key, ds)
       \/ \E err \in Failures : UploadRejected(key, err)

UploadSpec == Init /\ [][UploadNext]_vars

\* The conversation with its feedback controls. The user asks through the
\* chips or types a question; the backend answers the questions. (The startup
\* check, failed sends, uploads and the Add Resolution form of
\* ChatInterface.js do not touch the feedback state and are left out.)
FeedbackNext ==
  \/ onChange(<<"a">>)
  \/ ClickSend
  \/ \E k \in DOMAIN exampleQuestions : ClickExampleQuestion(k)
  \/ \E key \in DOMAIN inflight, response \in ChatReplies :
       ChatResolved(key, response)
  \/ \E k \in DOMAIN chatHistory, type \in {"positive", "negative"} :
       ChatMessage_handleFeedback(k, type)
  \/ \E text \in FieldTexts : onSuggestionsChange(text)
  \/ handleFeedbackSubmit
  \/ CloseFeedbackDialog
  \/ variant = "clear" /\
       \E field \in {"error_code", "resolution_text"} :
         \E value \in FieldValues(field) : handleResolutionDataChange(field, value)
  \/ variant = "clear" /\ handleSubmitResolution
  \/ variant = "clear" /\ handleCloseResolutionDialog
  \/ \E key \in DOMAIN inflight :
       \/ FeedbackSubmitResolved(key)
       \/ FeedbackRejected(key)
       \/ FeedbackOutcomeDropped(key)
       \/ SubmitResolutionResolved(key, [ok |-> TRUE, detail |-> Null])
       \/ SubmitResolutionRejected(key)

FeedbackSpec == Init /\ [][FeedbackNext]_vars

\* The same steps with a backend that answers and a user who fills in and
\* submits a feedback dialog that stays open.
FeedbackLiveSpec ==
  /\ Init
  /\ [][FeedbackNext]_vars
  /\ WF_vars(\E key \in DOMAIN inflight :
               \/ FeedbackSubmitResolved(key)
               \/ FeedbackOutcomeDropped(key)
               \/ SubmitResolutionResolved(key, [ok |-> TRUE, detail |-> Null]))
  /\ WF_vars(onSuggestionsChange(<<"a">>))
  /\ WF_vars(handleFeedbackSubmit)
  /\ WF_vars(variant = "clear"
               /\ handleResolutionDataChange("resolution_text", <<"a">>))
  /\ WF_vars(variant = "clear" /\ handleSubmitResolution)

\* The Add Resolution form of ChatInterface.js, once the startup check has
\* made ticket data available.
ResolutionNext ==
  \/ \E key \in DOMAIN inflight :
       \/ \E health \in HealthReplies : HealthResolved(key, health)
       \/ \E ds \in DefaultSessionReplies : StartupDefaultsResolved(key, ds)
       \/ StartupRejected(key)
       \/ \E response \in FetchResponses : SubmitResolutionResolved(key, response)
       \/ SubmitResolutionRejected(key)
  \/ handleAddResolution
  \/ variant = "refresh" /\
       \E field \in DOMAIN resolutionData :
         \E value \in FieldValues(field) : handleResolutionDataChange(field, value)
  \/ variant = "refresh" /\ handleSubmitResolution
  \/ variant = "refresh" /\ handleCloseResolutionDialog

ResolutionSpec == Init /\ [][ResolutionNext]_vars

\* The FileUpload drop zone in front of App's upload handling.
DropNext ==
  \/ \E d \in Drops : onDrop(d.accepted, d.rejected)
  \/ handleReset
  \/ CloseErrorSnackbar
  \/ CloseSuccessSnackbar
  \/ \E key \in DOMAIN inflight :
       \/ \E health \in HealthReplies : HealthResolved(key, health)
       \/ \E ds \in DefaultSessionReplies : StartupDefaultsResolved(key, ds)
       \/ StartupRejected(key)
       \/ UploadResolved(key)
       \/ \E ds \in DefaultSessionReplies : UploadRefreshResolved(key, ds)
       \/ \E err \in Failures : UploadRejected(key, err)

DropSpec == Init /\ [][DropNext]_vars

\* ------------------------------------------------------------ claims
\* C1: every handleSendMessage invocation has appended exactly one 'user'
\* message by the time its request is outstanding, and exactly one terminal
\* message ('assistant' or 'error') once its request has settled, however the
\* invocations overlap: the history holds one user message per send issued,
\* one terminal message per send settled, and the user message of every
\* outstanding send exactly once.
C1_OneUserOneTerminalPerSend ==
  LET users == {k \in DOMAIN chatHistory : chatHistory[k].type = "user"}
      terminals == {k \in DOMAIN chatHistory :
                      chatHistory[k].type \in {"assistant", "error"}}
  IN /\ Cardinality(users) = issued["/chat"]
     /\ Cardinality(terminals) =
          issued["/chat"] - Cardinality(Outstanding("/chat"))
     /\ \A key \in Outstanding("/chat") :
          Cardinality({k \in users :
                         chatHistory[k] = inflight[key].ctx.userMessage}) = 1

\* Two overlapping sends, one failed and then one answered.
C1_Witness ==
  /\ issued["/chat"] = 2
  /\ Outstanding("/chat") = {}
  /\ Len(chatHistory) = 4
  /\ chatHistory[2].type = "user"
  /\ chatHistory[3].type = "error"
  /\ chatHistory[4].type = "assistant"

\* C2: a clear-chat invoked while a send is in flight leaves the chat history
\* empty immediately after the clear.
C2_ClearEmptiesHistory ==
  [][(handleClearChat /\ Outstanding("/chat") # {}) => chatHistory' = <<>>]_vars

\* C3: no assistant message has more than one POST /feedback issued for it
\* (here: two of them outstanding at the same time).
C3_OneFeedbackPostPerMessage ==
  \A k1, k2 \in Outstanding("/feedback") :
    inflight[k1].ctx.messageId = inflight[k2].ctx.messageId => k1 = k2

\* C4: handleSubmitResolution issues no request while the description or the
\* resolution of the draft is empty or white space only: every POST
\* /add-resolution carries a description and a resolution that are non-blank
\* after trimming.
C4_NoBlankResolutionPosted ==
  \A key \in Outstanding("/add-resolution") :
    /\ trim(inflight[key].body.description) # <<>>
    /\ trim(inflight[key].body.resolution) # <<>>

\* A blank draft was turned down, then a complete one was posted.
C4_Witness ==
  /\ Outstanding("/add-resolution") # {}
  /\ alertText = "Please fill in the description and resolution fields."

\* C5: a drop whose rejected list is non-empty sets the drag-error text and
\* never reaches onFileUpload (no request is issued and App's state is left
\* alone), also when the accepted list is non-empty.
C5_RejectedDropNeverUploads ==
  [][\A d \in Drops :
       (Len(d.rejected) > 0 /\ onDrop(d.accepted, d.rejected)) =>
         /\ dragError' = "Please upload only Excel (.xlsx, .xls) or PDF (.pdf) files"
         /\ UNCHANGED <<inflight, issued, appVars>>
    ]_vars

\* A drop of one supported and one unsupported file: the error text is shown
\* and nothing was uploaded.
C5_Witness ==
  /\ dropped # Null
  /\ Len(dropped[1].accepted) > 0
  /\ Len(dropped[1].rejected) > 0
  /\ dropped[1].rejected[1].ext = ".csv"
  /\ dragError = "Please upload only Excel (.xlsx, .xls) or PDF (.pdf) files"
  /\ issued["/upload"] = 0

\* C6: when POST /upload is rejected with a detail string, the error
\* notification becomes exactly that string, the loading flag is cleared, and
\* the rejection changes neither fileInfo nor hasDefaultData nor the success
\* notification.
C6_UploadRejectedWithDetail ==
  [][\A key \in Outstanding("/upload"), err \in Failures :
       (err.detail \notin {Null, Some("")} /\ UploadRejected(key, err)) =>
         /\ error' = err.detail[1]
         /\ fileInfo' = fileInfo
         /\ hasDefaultData' = hasDefaultData
         /\ success' = success
         /\ isLoading' = FALSE
    ]_vars

\* A first upload succeeded and set fileInfo; the second POST /upload was
\* rejected with a detail (its refresh was never issued).
C6_Witness ==
  /\ variant = "refresh"
  /\ issued["/upload"] = 2
  /\ issued["/default-session"] = 2
  /\ DOMAIN inflight = {}
  /\ fileInfo = Some(SharedFileInfo)
  /\ error = "Unsupported format"
  /\ ~isLoading

\* C7: when the only send issued from an empty history is answered, the
\* history is exactly the user message with the text that was sent, followed
\* by the assistant message with the backend's response text and its sources
\* in the same order (none when the backend returned no sources).
C7_FirstSendAnswered ==
  [][\A key \in Outstanding("/chat"), response \in ChatReplies :
       (Len(chatHistory) = 1 /\ ChatResolved(key, response)) =>
         /\ Len(chatHistory') = 2
         /\ chatHistory'[1].type = "user"
         /\ chatHistory'[1].content = inflight[key].body.message
         /\ chatHistory'[2].type = "assistant"
         /\ chatHistory'[2].content = response.response
         /\ chatHistory'[2].sources =
              (IF response.sources = Null THEN <<>> ELSE response.sources[1])
    ]_vars

\* One send, answered with two sources.
C7_Witness ==
  /\ issued["/chat"] = 1
  /\ Outstanding("/chat") = {}
  /\ Len(chatHistory) = 2
  /\ chatHistory[1].type = "user"
  /\ chatHistory[2].type = "assistant"
  /\ chatHistory[2].sources = <<"ticket:12", "ticket:77">>

\* C8: a failed /chat request appends one 'error' message, sets the error
\* notification to the backend's detail when there is one and to 'Error
\* sending message' otherwise, and leaves every message already in the
\* history, the user message of that send included, where it was.
C8_FailureKeepsHistory ==
  [][\A key \in Outstanding("/chat"), err \in Failures :
       ChatRejected(key, err) =>
         /\ Len(chatHistory') = Len(chatHistory) + 1
         /\ SubSeq(chatHistory', 1, Len(chatHistory)) = chatHistory
         /\ chatHistory'[Len(chatHistory')].type = "error"
         /\ error' = (IF err.detail \in {Null, Some("")}
                      THEN "Error sending message" ELSE err.detail[1])
         /\ \E k \in DOMAIN chatHistory :
              /\ chatHistory[k] = inflight[key].ctx.userMessage
              /\ chatHistory'[k] = chatHistory[k]
    ]_vars

\* A send that failed with a detail: the user message, then the error message.
C8_Witness ==
  /\ Len(chatHistory) = 2
  /\ chatHistory[1].type = "user"
  /\ chatHistory[2].type = "error"
  /\ error = "Unsupported format"
  /\ Outstanding("/chat") = {}

C10_OneSessionId ==
  /\ sessionId = uuidv4(1)
  /\ \A key \in Outstanding("/chat") \cup Outstanding("/upload") :
       inflight[key].body.session_id = sessionId

\* After a failed send and a failed clear, a send and an upload are outstanding.
C10_Witness ==
  /\ Outstanding("/chat") # {}
  /\ Outstanding("/upload") # {}
  /\ \E k \in DOMAIN chatHistory : chatHistory[k].type = "error"
  /\ error = "Error clearing chat history."

\* C11: only messages of type 'assistant' carry a sources field; 'user' and
\* 'error' messages never do.
C11_SourcesOnlyOnAssistant ==
  \A k \in DOMAIN chatHistory :
    "sources" \in DOMAIN chatHistory[k] => chatHistory[k].type = "assistant"

\* A user message, an error message and an answer with sources in one history.
C11_Witness ==
  /\ \E k \in DOMAIN chatHistory : chatHistory[k].type = "user"
  /\ \E k \in DOMAIN chatHistory : chatHistory[k].type = "error"
  /\ \E k \in DOMAIN chatHistory :
       /\ chatHistory[k].type = "assistant"
       /\ Len(chatHistory[k].sources) = 2

\* C12: the history is in insertion order: every step leaves it as it is or
\* appends one message at its end, so the previous history is a prefix of the
\* new one (no reordering, no removal, no change of a message in place).
C12_InsertionOrder ==
  [][\/ chatHistory' = chatHistory
     \/ /\ Len(chatHistory') = Len(chatHistory) + 1
        /\ SubSeq(chatHistory', 1, Len(chatHistory)) = chatHistory
    ]_vars

\* The same text was sent twice and both user messages are in the history,
\* in the order of the sends, with the first send's outcome after them.
C12_Witness ==
  /\ Len(chatHistory) = 3
  /\ chatHistory[1].type = "user"
  /\ chatHistory[2].type = "user"
  /\ chatHistory[1].content = chatHistory[2].content
  /\ chatHistory[1].id < chatHistory[2].id
  /\ chatHistory[3].type = "error"

\* C13: no call is retried: a step issues at most one /chat and at most one
\* /upload request, and a step in which a request settles (also when it
\* fails) issues neither.
C13_NoRetry ==
  [][/\ issued'["/chat"] \in {issued["/chat"], issued["/chat"] + 1}
     /\ issued'["/upload"] \in {issued["/upload"], issued["/upload"] + 1}
     /\ (\E key \in DOMAIN inflight : key \notin DOMAIN inflight') =>
          /\ issued'["/chat"] = issued["/chat"]
          /\ issued'["/upload"] = issued["/upload"]
    ]_vars

\* One send and one upload, both failed, each with its single request.
C13_Witness ==
  /\ issued["/chat"] = 1
  /\ issued["/upload"] = 1
  /\ DOMAIN inflight = {}
  /\ Len(chatHistory) = 2
  /\ chatHistory[2].type = "error"
  /\ error = "Error uploading file"
  /\ ~isLoading
  /\ ~chatLoading

\* C14: the 'feedback given' flag of a message, once set by the click on a
\* thumb, stays set in every later state, and every failed feedback
\* submission is logged.
C14_FlagKeptAndFailureLogged ==
  [][/\ feedbackGiven \subseteq feedbackGiven'
     /\ \A key \in Outstanding("/feedback") :
          (FeedbackRejected(key) \/ SubmitResolutionRejected(key)) =>
            consoleErrors' # consoleErrors
    ]_vars

\* C15: every failure of a feedback submission or of a resolution submission
\* (a rejected request or a non-OK response) raises an alert.
C15_FailureRaisesAlert ==
  [][LET failureAlerts ==
           {"Error adding resolution. Please check the console for details.",
            "Error submitting resolution. Please check the console for details."}
           \cup {"Failed to add resolution: " \o DetailOr(r, "Please try again.") :
                   r \in FetchResponses}
     IN \A key \in Outstanding("/feedback") \cup Outstanding("/add-resolution") :
          (\/ FeedbackRejected(key)
           \/ SubmitResolutionRejected(key)
           \/ \E r \in FetchResponses :
                ~r.ok /\ SubmitResolutionResolved(key, r)) =>
            alertText' \in failureAlerts
    ]_vars

\* C16: every POST /feedback body has the id of the rated message as
\* message_id, the chosen polarity as feedback and the client's session id as
\* session_id.
C16_FeedbackBody ==
  \A key \in Outstanding("/feedback") :
    LET body == inflight[key].body
        Value(v) == [js |-> "value", value |-> v]
    IN /\ body.message_id = Value(inflight[key].ctx.messageId)
       /\ body.feedback \in {Value("positive"), Value("negative")}
       /\ body.session_id = Value(sessionId)

\* C17: in ChatInterface.js a thumbs-up issues the positive feedback request
\* in the same step and opens no dialog; a thumbs-down opens the feedback
\* dialog and issues nothing; and every negative feedback request comes from
\* the dialog's submit with suggestions that are non-blank after trimming.
C17_NegativeOnlyFromDialog ==
  [][variant = "refresh" =>
       /\ \A k \in DOMAIN chatHistory :
            ChatMessage_handleFeedback(k, "positive") =>
              /\ issued'["/feedback"] = issued["/feedback"] + 1
              /\ inflight'[NextKey("/feedback")].body.message_id.type = "positive"
              /\ inflight'[NextKey("/feedback")].body.message_id.messageId
                   = chatHistory[k].id
              /\ feedbackDialogOpen' = feedbackDialogOpen
       /\ \A k \in DOMAIN chatHistory :
            ChatMessage_handleFeedback(k, "negative") =>
              /\ feedbackDialogOpen'
              /\ UNCHANGED <<inflight, issued>>
       /\ \A key \in DOMAIN inflight' :
            (key[1] = "/feedback"
               /\ inflight'[key].body.message_id.type = "negative") =>
              /\ inflight'[key].ctx.fn = "handleFeedbackSubmit"
              /\ trim(inflight'[key].body.message_id.suggestions) # <<>>
    ]_vars

\* A thumbs-up request and a submitted thumbs-down request are outstanding.
C17_Witness ==
  /\ variant = "refresh"
  /\ \E key \in Outstanding("/feedback") :
       /\ inflight[key].body.message_id.type = "positive"
       /\ inflight[key].ctx.fn = "handleFeedback"
  /\ \E key \in Outstanding("/feedback") :
       /\ inflight[key].body.message_id.type = "negative"
       /\ inflight[key].ctx.fn = "handleFeedbackSubmit"
  /\ ~feedbackDialogOpen

\* C18: when every issued request settles, the chat-loading flag and the
\* upload-loading flag are each false again some time after they were set
\* (so also after a send or an upload failed), and in a state where both are
\* false the user can type a message and a click on Send issues a request.
C18_InteractiveAfterFailure ==
  /\ chatLoading ~> ~chatLoading
  /\ isLoading ~> ~isLoading
  /\ []((~chatLoading /\ ~isLoading /\ issued["/chat"] < MaxSends) =>
          /\ ENABLED onChange(<<"a">>)
          /\ trim(message) # <<>> =>
               ENABLED (ClickSend /\ issued'["/chat"] = issued["/chat"] + 1))

\* A send has failed, an upload has failed, nothing is loading and a new
\* message is typed.
C18_Witness ==
  /\ Len(chatHistory) = 2
  /\ chatHistory[2].type = "error"
  /\ error = "Error uploading file"
  /\ ~chatLoading
  /\ ~isLoading
  /\ inflight = << >>
  /\ trim(message) # <<>>

\* C19: every outstanding request is addressed to the configured base URL
\* (the environment's value, or http://localhost:8000 when there is none).
C19_OneBaseUrl ==
  \A key \in DOMAIN inflight : inflight[key].origin = API_BASE_URL

\* C20: every draft posted to /add-resolution has a module that is one of the
\* nine categories and a ticket_level that is one of L1, L2, L3.
C20_DraftInCategories ==
  \A key \in Outstanding("/add-resolution") :
    /\ inflight[key].body.module \in Modules
    /\ inflight[key].body.ticket_level \in TicketLevels

\* C21: in a state with no ticket data (hasDefaultData false, fileInfo null)
\* no step issues a /chat request.
C21_NoSendWithoutData ==
  [][(~hasDefaultData /\ fileInfo = Null) =>
       issued'["/chat"] = issued["/chat"]]_vars

\* C22: a step that issues a /chat request from the text input does so with
\* a non-blank input, posts the trimmed input and empties the input; Enter
\* with a blank input issues nothing and leaves the input as it is.
C22_SendsTrimmedText ==
  [][/\ issued'["/chat"] # issued["/chat"] =>
          LET posted == inflight'[NextKey("/chat")].body.message
          IN \/ \E k \in DOMAIN exampleQuestions :
                  posted = exampleQuestions[k] /\ message' = message
             \/ /\ trim(message) # <<>>
                /\ posted = trim(message)
                /\ message' = <<>>
     /\ (trim(message) = <<>> /\ handleKeyPress) =>
          /\ message' = message
          /\ UNCHANGED <<inflight, issued, chatHistory>>
    ]_vars

\* The input is empty again and the posted text is the typed text, trimmed.
C22_Witness ==
  /\ message = <<>>
  /\ \E key \in Outstanding("/chat") :
       /\ inflight[key].body.message = <<"a">>
       /\ chatHistory[Len(chatHistory)].content = <<"a">>

\* C23: chatLoading is true exactly while a /chat request is outstanding.
C23_LoadingTracksSends ==
  chatLoading <=> Outstanding("/chat") # {}

\* A second send is pending after the first one was answered.
C23_Witness ==
  /\ chatLoading
  /\ Outstanding("/chat") = {<<"/chat", 2>>}
  /\ Len(chatHistory) = 3

\* C24: in the wired application at most one /chat request is outstanding;
\* while chatLoading is true the text field and the Send button are disabled,
\* and while a request is outstanding the history is not empty (no chips).
C24_OneSendAtATime ==
  /\ Cardinality(Outstanding("/chat")) <= 1
  /\ chatLoading => ~TextFieldEnabled /\ ~SendButtonEnabled
  /\ Outstanding("/chat") # {} => Len(chatHistory) > 0

\* Clear Chat was clicked while the second send was pending.
C24_Witness ==
  /\ Outstanding("/chat") = {<<"/chat", 2>>}
  /\ variant = "clear"
  /\ error = "Error clearing chat history."
  /\ chatLoading

\* C25: in every state where the Send button is enabled, a click on it
\* issues a /chat request.
C25_EnabledButtonSends ==
  (SendButtonEnabled /\ issued["/chat"] < MaxSends) =>
    ENABLED (ClickSend /\ issued'["/chat"] = issued["/chat"] + 1)

\* C26: in the variant that refreshes the shared session after an upload,
\* once the /upload request has succeeded, the step that ends the upload shows
\* the success notification for the file and sets no error.
C26_UploadSuccessShown ==
  [][\A key \in Outstanding("/default-session") :
       (inflight[key].ctx.fn = "handleFileUpload" /\ key \notin DOMAIN inflight') =>
         /\ success' = FileAdded(inflight[key].ctx.file)
         /\ error' = error
    ]_vars

\* C27: in every run, each message whose 'feedback given' flag is set at some
\* time has a POST /feedback request issued for it at some time (runs that
\* reach the model's cap on feedback requests are not judged).
C27_FlagImpliesRequest ==
  \A id \in 1 .. (2 * MaxSends) :
    \/ [](id \notin feedbackGiven)
    \/ <>(\E key \in Outstanding("/feedback") : inflight[key].ctx.messageId = id)
    \/ <>(issued["/feedback"] = MaxFeedbacks)

\* C28: in ChatInterface.js a successful /add-resolution response and a
\* cancel each close the dialog and reset the draft to its defaults; a
\* rejected validation leaves the dialog open and the draft unchanged, and a
\* non-OK response or a network error leaves the dialog and the draft as
\* they are.
C28_DraftDiscardedOnSuccessOrCancel ==
  [][variant = "refresh" =>
       LET defaults == [error_code |-> <<>>, module |-> "", description |-> <<>>,
                        resolution |-> <<>>, ticket_level |-> "L2"]
           closedAndReset == ~addResolutionOpen' /\ resolutionData' = defaults
           untouched == UNCHANGED <<addResolutionOpen, resolutionData>>
       IN /\ handleCloseResolutionDialog => closedAndReset
          /\ (handleSubmitResolution
                /\ (~Filled(resolutionData.description)
                      \/ ~Filled(resolutionData.resolution))) =>
               addResolutionOpen' /\ untouched
          /\ \A key \in Outstanding("/add-resolution") :
               /\ SubmitResolutionResolved(key, [ok |-> TRUE, detail |-> Null]) =>
                    closedAndReset
               /\ (\E r \in FetchResponses : ~r.ok /\ SubmitResolutionResolved(key, r)) =>
                    untouched
               /\ SubmitResolutionRejected(key) => untouched
    ]_vars

\* A submitted draft failed: the dialog is still open with the draft in it.
C28_Witness ==
  /\ variant = "refresh"
  /\ addResolutionOpen
  /\ Filled(resolutionData.description)
  /\ Filled(resolutionData.resolution)
  /\ issued["/add-resolution"] = 1
  /\ Outstanding("/add-resolution") = {}
  /\ alertText = "Error adding resolution. Please check the console for details."

\* C29: every step of handleFileUpload (its start and each continuation,
\* after a success or a failure) leaves chatHistory, chatLoading and
\* sessionId unchanged, and the step that ends it clears isLoading.
C29_UploadLeavesConversation ==
  [][/\ issued'["/upload"] # issued["/upload"] =>
          UNCHANGED <<chatHistory, chatLoading, sessionId>>
     /\ \A key \in DOMAIN inflight :
          (inflight[key].ctx.fn = "handleFileUpload" /\ key \notin DOMAIN inflight') =>
            /\ UNCHANGED <<chatHistory, chatLoading, sessionId>>
            /\ issued' = issued => ~isLoading'
    ]_vars

\* An upload failed while a send was pending: the conversation is as it was.
C29_Witness ==
  /\ issued["/upload"] = 1
  /\ \A key \in DOMAIN inflight : inflight[key].ctx.fn # "handleFileUpload"
  /\ error = "Error uploading file"
  /\ ~isLoading
  /\ chatLoading
  /\ Len(chatHistory) = 3

\* C30: hasDefaultData starts false, becomes true only in a step in which a
\* startup check or an upload ends without an error, and never becomes false
\* again.
C30_HasDefaultDataMonotonic ==
  /\ ~hasDefaultData
  /\ [][/\ hasDefaultData => hasDefaultData'
        /\ (~hasDefaultData /\ hasDefaultData') =>
             /\ error' = error
             /\ \E key \in DOMAIN inflight :
                  /\ key \notin DOMAIN inflight'
                  /\ key[1] \in {"/health", "/default-session", "/upload"}
                  /\ inflight[key].ctx.fn
                       \in {"checkApiHealthAndDefaults", "handleFileUpload"}
       ]_vars

\* Default data is available and a later upload and the startup check failed.
C30_Witness ==
  /\ hasDefaultData
  /\ issued["/upload"] = 2
  /\ inflight = << >>
  /\ error \in {"Error uploading file",
                "Cannot connect to the backend API. Please ensure the server is running."}
  /\ ~isLoading

====
